---- MODULE Spec2Model ----
(***************************************************************************)
(* Model of the Article of src/article.js: the ordered sections of a       *)
(* document, the operations history with its cursor historyAt, and the     *)
(* executor exec that applies the 'do' or 'undo' action of an operation.   *)
(* Every public call (insertSection, transaction, undo, redo) is one       *)
(* atomic action: the code is synchronous and single-threaded.  A call     *)
(* that throws leaves the mutations made before the throw in place.        *)
(***************************************************************************)
EXTENDS Integers, Sequences, FiniteSets, TLC

\* Bounds of the model.
MaxTx == 3          \* transaction() calls in one behaviour
MaxSections == 2    \* sections held by the article
MaxText == 2        \* characters of a component's text
MaxComponents == 3  \* components of a section

VARIABLES
  sections,    \* this.sections: sequence of [name, components]
  history,     \* this.history: sequence of [id, ops]; id is the identity of the ops array
  historyAt,   \* this.historyAt
  err,         \* outcome of the last call: "none" or the error it threw
  execs,       \* number of exec calls made by the last call
  notes,       \* selection notifications emitted by the last call
  log,         \* the exec calls of the last call, in order: [operation, action]
  miss,        \* the last call had a name lookup that found nothing
  lastCall,    \* the last call and its argument
  nextId,      \* number of transaction() calls made so far
  applied,     \* per history entry: "applied", "undone" or "failed"
  discarded,   \* ids of the transactions removed from history
  run          \* bookkeeping of the current transaction* undo* redo* run

vars == <<sections, history, historyAt, err, execs, notes, log, miss, lastCall,
          nextId, applied, discarded, run>>

Min(S) == CHOOSE x \in S : \A y \in S : x <= y

Clamp(i, n) == IF i < 0 THEN 0 ELSE IF i > n THEN n ELSE i

----------------------------------------------------------------------------
\* Components and sections (collaborators of the article).

\* new ComponentClass(options): a fresh component; name and text from options.
NewComponent(kind, options) ==
  [name |-> options.name,
   kind |-> kind,
   text |-> IF "text" \in DOMAIN options THEN options.text ELSE <<>>,
   formats |-> {}]

\* component.insertCharactersAt(value, index)
insertCharactersAt(c, value, index) ==
  LET i == Clamp(index, Len(c.text)) IN
  [c EXCEPT !.text = SubSeq(c.text, 1, i) \o value \o SubSeq(c.text, i + 1, Len(c.text))]

\* component.removeCharactersAt(index, count)
removeCharactersAt(c, index, count) ==
  LET i == Clamp(index, Len(c.text))
      k == Clamp(i + count, Len(c.text)) IN
  [c EXCEPT !.text = SubSeq(c.text, 1, i) \o SubSeq(c.text, k + 1, Len(c.text))]

\* component.setText(value)
setText(c, value) == [c EXCEPT !.text = value]

\* component.applyFormats(formats)
applyFormats(c, formats) == [c EXCEPT !.formats = c.formats \cup formats]

\* section.insertComponentAt(component, index), index in 0..length
insertComponentAt(sec, c, index) ==
  [sec EXCEPT !.components =
     SubSeq(sec.components, 1, index) \o <<c>> \o
     SubSeq(sec.components, index + 1, Len(sec.components))]

\* section.removeComponent(component), the component being the j-th of sec
removeComponent(sec, j) ==
  [sec EXCEPT !.components =
     SubSeq(sec.components, 1, j - 1) \o
     SubSeq(sec.components, j + 1, Len(sec.components))]

\* All component names of the document.
ComponentNames(secs) ==
  UNION {{secs[i].components[j].name : j \in 1..Len(secs[i].components)} : i \in 1..Len(secs)}

\* Name given to a component constructed without a name: a generated uid,
\* here the first of the list that no component of the document carries.
AutoNames == <<"u1", "u2", "u3", "u4", "u5", "u6">>
FreshName(secs) ==
  AutoNames[Min({k \in 1..Len(AutoNames) : AutoNames[k] \notin ComponentNames(secs)})]

----------------------------------------------------------------------------
\* Lookups of the article.

ComponentClasses == {"Paragraph", "Figure", "YouTubeComponent", "GiphyComponent"}

\* getComponentClassByName(name): the class, or undefined (FALSE) for another name.
getComponentClassByName(name) ==
  IF name \in ComponentClasses THEN [found |-> TRUE, class |-> name]
  ELSE [found |-> FALSE, class |-> "undefined"]

\* getSectionByName(name): index of the first section of that name, 0 for undefined.
getSectionByName(secs, name) ==
  LET hits == {i \in 1..Len(secs) : secs[i].name = name}
  IN IF hits = {} THEN 0 ELSE Min(hits)

\* getComponentByName(name): <<i, j>> of the first component of that name in
\* section order then component order, <<0, 0>> for undefined.
getComponentByName(secs, name) ==
  LET hitsIn(i) == {j \in 1..Len(secs[i].components) : secs[i].components[j].name = name}
      secHits == {i \in 1..Len(secs) : hitsIn(i) # {}}
  IN IF secHits = {} THEN <<0, 0>>
     ELSE <<Min(secHits), Min(hitsIn(Min(secHits)))>>

----------------------------------------------------------------------------
\* exec(operation, action).  st is the running state of a call:
\* [sections, notes, log, err, execs, miss]; a is operation[action].

Has(a, f) == f \in DOMAIN a

\* JavaScript truthiness of a numeric field: absent and 0 are falsy.
Truthy(a, f) == Has(a, f) /\ a[f] # 0

Throw(st, e) == [st EXCEPT !.err = e]

ComponentAt(secs, pos) == secs[pos[1]].components[pos[2]]

SetComponent(st, pos, c) ==
  [st EXCEPT !.sections[pos[1]].components[pos[2]] = c]

\* The component of a notification: its name, "undefined" when the lookup found nothing.
NoteComponent(secs, pos) ==
  IF pos = <<0, 0>> THEN "undefined" ELSE ComponentAt(secs, pos).name

setCursor(st, pos, offset) ==
  [st EXCEPT !.notes = Append(@, [kind |-> "setCursor",
                                  component |-> NoteComponent(st.sections, pos),
                                  from |-> offset, to |-> offset])]

select(st, pos, from, to) ==
  [st EXCEPT !.notes = Append(@, [kind |-> "select",
                                  component |-> NoteComponent(st.sections, pos),
                                  from |-> from, to |-> to])]

ExecInsertChars(st, a) ==
  LET pos == getComponentByName(st.sections, a.component) IN
  IF pos = <<0, 0>> THEN Throw([st EXCEPT !.miss = TRUE], "TypeError")
  ELSE LET st1 == SetComponent(st, pos,
                    insertCharactersAt(ComponentAt(st.sections, pos), a.value, a.index))
       IN IF Truthy(a, "cursorOffset") THEN setCursor(st1, pos, a.cursorOffset) ELSE st1

ExecRemoveChars(st, a) ==
  LET pos == getComponentByName(st.sections, a.component) IN
  IF pos = <<0, 0>> THEN Throw([st EXCEPT !.miss = TRUE], "TypeError")
  ELSE LET st1 == SetComponent(st, pos,
                    removeCharactersAt(ComponentAt(st.sections, pos), a.index, a.count))
       IN IF Truthy(a, "cursorOffset") THEN setCursor(st1, pos, a.cursorOffset) ELSE st1

\* The selection part of updateComponent; it does not dereference component.
ExecUpdateSelection(st, a, pos) ==
  IF Has(a, "cursorOffset")
  THEN IF ~Truthy(a, "selectRange")
       THEN setCursor(st, pos, a.cursorOffset)
       ELSE select(st, pos, a.cursorOffset, a.cursorOffset + a.selectRange)
  ELSE st

ExecUpdateComponent(st, a) ==
  LET pos == getComponentByName(st.sections, a.component)
      found == pos # <<0, 0>>
      st0 == IF found THEN st ELSE [st EXCEPT !.miss = TRUE]
  IN IF Has(a, "value") /\ ~found THEN Throw(st0, "TypeError")
     ELSE LET st1 == IF Has(a, "value")
                     THEN SetComponent(st0, pos, setText(ComponentAt(st0.sections, pos), a.value))
                     ELSE st0
          IN IF Has(a, "formats") /\ ~found THEN Throw(st1, "TypeError")
             ELSE LET st2 == IF Has(a, "formats")
                             THEN SetComponent(st1, pos,
                                    applyFormats(ComponentAt(st1.sections, pos), a.formats))
                             ELSE st1
                  IN ExecUpdateSelection(st2, a, pos)

ExecDeleteComponent(st, a) ==
  LET pos == getComponentByName(st.sections, a.component) IN
  IF pos = <<0, 0>> THEN Throw([st EXCEPT !.miss = TRUE], "TypeError")
  ELSE [st EXCEPT !.sections[pos[1]] = removeComponent(st.sections[pos[1]], pos[2])]

\* The insertComponent branch appending the component, whatever the index.
ExecInsertComponentAtEnd(st, a) ==
  LET s == getSectionByName(st.sections, a.section)
      cls == getComponentClassByName(a.componentClass)
  IN IF ~cls.found \/ s = 0 THEN Throw(st, "TypeError")
     ELSE [st EXCEPT !.sections[s] =
             insertComponentAt(st.sections[s],
                               NewComponent(cls.class, [name |-> a.component]),
                               Len(st.sections[s].components))]

ExecInsertComponent(st, a) ==
  LET s == getSectionByName(st.sections, a.section)
      st0 == IF s = 0 THEN [st EXCEPT !.miss = TRUE] ELSE st
      options == IF Has(a, "attrs") THEN a.attrs @@ [name |-> a.component]
                 ELSE [name |-> a.component]
      cls == getComponentClassByName(a.componentClass)
  IN IF ~cls.found THEN Throw(st0, "TypeError")
     ELSE IF s = 0 THEN Throw(st0, "TypeError")
     ELSE IF a.index \notin 0..Len(st.sections[s].components)
          THEN Throw(st0, "IndexOutOfRange")
     ELSE [st0 EXCEPT !.sections[s] =
             insertComponentAt(st.sections[s], NewComponent(cls.class, options), a.index)]

\* exec rejecting an op it does not know.
execStrict(st, operation, action) ==
  LET a == operation[action]
      st0 == [st EXCEPT !.execs = @ + 1,
                        !.log = Append(@, [operation |-> operation, action |-> action])]
  IN CASE a.op = "insertChars" -> ExecInsertChars(st0, a)
       [] a.op = "removeChars" -> ExecRemoveChars(st0, a)
       [] a.op = "updateComponent" -> ExecUpdateComponent(st0, a)
       [] a.op = "deleteComponent" -> ExecDeleteComponent(st0, a)
       [] a.op = "insertComponent" -> ExecInsertComponent(st0, a)
       [] OTHER -> Throw(st0, "TypeError")

exec(st, operation, action) ==
  LET a == operation[action]
      st0 == [st EXCEPT !.execs = @ + 1,
                        !.log = Append(@, [operation |-> operation, action |-> action])]
  IN CASE a.op = "insertChars" -> ExecInsertChars(st0, a)
       [] a.op = "removeChars" -> ExecRemoveChars(st0, a)
       [] a.op = "updateComponent" -> ExecUpdateComponent(st0, a)
       [] a.op = "deleteComponent" -> ExecDeleteComponent(st0, a)
       [] a.op = "insertComponent" -> ExecInsertComponent(st0, a)
       [] OTHER -> st0

----------------------------------------------------------------------------
\* The history: do, redo, undo, transaction, on the state of a call
\* extended with history and historyAt.

\* The loop of do() running from the last operation to the first.
RECURSIVE DoLoopBackwards(_, _, _)
DoLoopBackwards(st, ops, i) ==
  IF st.err # "none" \/ i > Len(ops) THEN st
  ELSE DoLoopBackwards(exec(st, ops[Len(ops) + 1 - i], "do"), ops, i + 1)

\* The loop of do(): exec(ops[i], 'do') for i = 0 .. length-1, stopped by a throw.
RECURSIVE DoLoop(_, _, _)
DoLoop(st, ops, i) ==
  IF st.err # "none" \/ i > Len(ops) THEN st
  ELSE DoLoop(exec(st, ops[i], "do"), ops, i + 1)

\* The loop of undo() running from the first operation to the last.
RECURSIVE UndoLoopForwards(_, _, _)
UndoLoopForwards(st, ops, i) ==
  IF st.err # "none" \/ i < 1 THEN st
  ELSE UndoLoopForwards(exec(st, ops[Len(ops) + 1 - i], "undo"), ops, i - 1)

\* The loop of undo() running the undo action of the last operation only.
UndoLoopLastOnly(st, ops, i) ==
  IF i < 1 THEN st ELSE exec(st, ops[i], "undo")

\* The loop of undo(): exec(ops[i], 'undo') for i = length-1 .. 0, stopped by a throw.
RECURSIVE UndoLoop(_, _, _)
UndoLoop(st, ops, i) ==
  IF st.err # "none" \/ i < 1 THEN st
  ELSE UndoLoop(exec(st, ops[i], "undo"), ops, i - 1)

\* do(): ops = history[historyAt++], then the loop.  Reading past the end of
\* history yields undefined and ops.length throws.
do(st) ==
  LET at == st.historyAt
      st1 == [st EXCEPT !.historyAt = at + 1]
  IN IF at + 1 \in 1..Len(st.history)
     THEN DoLoop(st1, st.history[at + 1].ops, 1)
     ELSE Throw(st1, "TypeError")

\* redo() unable to reach the last transaction.
RedoGuardOffByOne(st) == st.historyAt < Len(st.history) - 1

RedoGuard(st) == st.historyAt < Len(st.history)

redo(st) == IF RedoGuard(st) THEN do(st) ELSE st

\* undo() entered at historyAt = 0.
UndoGuardOffByOne(st) == st.historyAt >= 0

UndoGuard(st) == st.historyAt > 0

\* undo() reading history[historyAt - 1] without moving historyAt.
undoNoDecrement(st) ==
  IF UndoGuard(st)
  THEN LET at == st.historyAt - 1
       IN IF at + 1 \in 1..Len(st.history)
          THEN UndoLoop(st, st.history[at + 1].ops, Len(st.history[at + 1].ops))
          ELSE Throw(st, "TypeError")
  ELSE st

undo(st) ==
  IF UndoGuard(st)
  THEN LET at == st.historyAt - 1
           st1 == [st EXCEPT !.historyAt = at]
       IN IF at + 1 \in 1..Len(st.history)
          THEN UndoLoop(st1, st.history[at + 1].ops, Len(st.history[at + 1].ops))
          ELSE Throw(st1, "TypeError")
  ELSE st

\* transaction() without the splice.
TruncatedNoSplice(st) == st.history

\* The history after the splice of transaction().
Truncated(st) ==
  IF st.historyAt < Len(st.history) THEN SubSeq(st.history, 1, st.historyAt)
  ELSE st.history

\* transaction() splicing from one entry below historyAt.
transactionSpliceBelow(st, tx) ==
  do([st EXCEPT !.history = Append(SubSeq(st.history, 1, st.historyAt - 1), tx)])

transaction(st, tx) ==
  do([st EXCEPT !.history = Append(Truncated(st), tx)])

----------------------------------------------------------------------------
\* insertSection(section) and the constructor.

\* A section handed to insertSection: hasList is FALSE when it has no
\* components list at all.
NewParagraph(secs) ==
  NewComponent("Paragraph", [name |-> FreshName(secs)])

\* insertSection without the default Paragraph.
insertSectionNoDefault(secs, section) ==
  Append(secs, [name |-> section.name, components |-> section.components])

insertSection(secs, section) ==
  LET sec0 == [name |-> section.name, components |-> section.components]
      sec1 == IF ~section.hasList \/ Len(section.components) = 0
              THEN insertComponentAt(sec0, NewParagraph(secs), 0)
              ELSE sec0
  IN Append(secs, sec1)

\* removeSection(section): index is this.sections.indexOf(section), -1 for a
\* section that is not in the article; splice(index, 1) counts a negative
\* index from the end.
removeSection(secs, index) ==
  LET start == IF index >= 0 THEN index
               ELSE IF Len(secs) + index < 0 THEN 0 ELSE Len(secs) + index
  IN SubSeq(secs, 1, start) \o SubSeq(secs, start + 2, Len(secs))

\* The loop of the constructor over params.sections.
RECURSIVE Construct(_, _, _)
Construct(secs, params, i) ==
  IF i > Len(params) THEN secs
  ELSE Construct(insertSection(secs, params[i]), params, i + 1)

----------------------------------------------------------------------------
\* Inputs.

ParagraphP == [name |-> "p", kind |-> "Paragraph", text |-> <<>>, formats |-> {}]
ParagraphQ == [name |-> "q", kind |-> "Paragraph", text |-> <<"b">>, formats |-> {}]

SectionInputs ==
  { [name |-> "s2", hasList |-> FALSE, components |-> <<>>],
    [name |-> "s2", hasList |-> TRUE, components |-> <<>>],
    [name |-> "s1", hasList |-> TRUE, components |-> <<ParagraphQ>>] }

\* params.sections of the constructor.
InitParams ==
  { <<[name |-> "s1", hasList |-> TRUE, components |-> <<ParagraphP>>]>>,
    <<[name |-> "s1", hasList |-> TRUE,
       components |-> <<[ParagraphP EXCEPT !.text = <<"a">>]>>]>> }

\* insertChars "a" at 0 of p, undone by removeChars of one character at 0.
OpInsertA ==
  [do |-> [op |-> "insertChars", component |-> "p", value |-> <<"a">>, index |-> 0,
           cursorOffset |-> 1],
   undo |-> [op |-> "removeChars", component |-> "p", index |-> 0, count |-> 1,
             cursorOffset |-> 0]]

\* insertChars "b" at 0 of p, undone by resetting the text of p to "": the
\* undo action is the inverse of the do action only on an empty p.
OpPrependB ==
  [do |-> [op |-> "insertChars", component |-> "p", value |-> <<"b">>, index |-> 0],
   undo |-> [op |-> "updateComponent", component |-> "p", value |-> <<>>,
             cursorOffset |-> 0]]

\* insertComponent of paragraph c at the head of s1, undone by deleteComponent.
OpInsertC ==
  [do |-> [op |-> "insertComponent", section |-> "s1", component |-> "c",
           componentClass |-> "Paragraph", index |-> 0],
   undo |-> [op |-> "deleteComponent", component |-> "c"]]

\* deleteComponent of p, undone by insertComponent of a fresh p.
OpDeleteP ==
  [do |-> [op |-> "deleteComponent", component |-> "p"],
   undo |-> [op |-> "insertComponent", section |-> "s1", component |-> "p",
             componentClass |-> "Paragraph", index |-> 0]]

\* removeChars on a component that is not in the document.
OpRemoveZ ==
  [do |-> [op |-> "removeChars", component |-> "zz", index |-> 0, count |-> 1],
   undo |-> [op |-> "insertChars", component |-> "zz", value |-> <<"a">>, index |-> 0]]

\* updateComponent without value or formats on a component that is not in the document.
OpTouchZ ==
  [do |-> [op |-> "updateComponent", component |-> "zz", cursorOffset |-> 1],
   undo |-> [op |-> "updateComponent", component |-> "zz"]]

\* insertComponent into a section that is not in the document.
OpInsertNowhere ==
  [do |-> [op |-> "insertComponent", section |-> "sx", component |-> "e",
           componentClass |-> "Paragraph", index |-> 0],
   undo |-> [op |-> "deleteComponent", component |-> "e"]]

\* removeChars of one character at 0 of p, undone by insertChars "a" at 0.
OpRemoveA ==
  [do |-> [op |-> "removeChars", component |-> "p", index |-> 0, count |-> 1],
   undo |-> [op |-> "insertChars", component |-> "p", value |-> <<"a">>, index |-> 0]]

\* An operation whose op is none of the five that exec knows.
OpNoop ==
  [do |-> [op |-> "noop", component |-> "p"],
   undo |-> [op |-> "noop", component |-> "p"]]

\* insertComponent of a class that getComponentClassByName does not know.
OpInsertVideo ==
  [do |-> [op |-> "insertComponent", section |-> "s1", component |-> "d",
           componentClass |-> "Video", index |-> 0],
   undo |-> [op |-> "deleteComponent", component |-> "d"]]

\* updateComponent with cursorOffset and a selectRange of 0, undone by an
\* updateComponent with a selectRange of 1.
OpSelectZero ==
  [do |-> [op |-> "updateComponent", component |-> "p", value |-> <<"b">>,
           cursorOffset |-> 1, selectRange |-> 0],
   undo |-> [op |-> "updateComponent", component |-> "p", value |-> <<>>,
             cursorOffset |-> 0, selectRange |-> 1]]

\* updateComponent applying formats only, undone by an updateComponent with
\* a cursorOffset only.
OpFormat ==
  [do |-> [op |-> "updateComponent", component |-> "p", formats |-> {"bold"}],
   undo |-> [op |-> "updateComponent", component |-> "p", cursorOffset |-> 1]]

\* The transactions submitted in the main specification.
TxPool ==
  { <<OpInsertA>>, <<OpPrependB>>, <<OpInsertC>>, <<OpDeleteP>>,
    <<OpInsertA, OpRemoveZ>> }

\* The transactions submitted in the specification of the name lookups.
LookupTxPool ==
  { <<OpInsertA>>, <<OpDeleteP>>, <<OpInsertA, OpRemoveZ>>, <<OpTouchZ>>,
    <<OpInsertNowhere>> }

\* The transactions submitted in the specification of the replay of
\* transactions: two operations that succeed, two of which the second
\* fails, and the insertion of a component.
ReplayTxPool ==
  { <<OpInsertA, OpRemoveA>>, <<OpInsertA, OpRemoveZ>>, <<OpInsertC>> }

\* The transactions submitted in the specification of the ops exec does not
\* know: an unknown op alone, an unknown op after a known one, an empty list.
SkipTxPool ==
  { <<OpNoop>>, <<OpInsertA, OpNoop>>, <<>> }

\* The transactions submitted in the specification of the dispatch of exec.
DispatchTxPool ==
  { <<OpInsertA>>, <<OpSelectZero>>, <<OpFormat>>, <<OpInsertVideo>> }

\* The transactions submitted in the specification of the section calls.
SectionTxPool ==
  { <<OpInsertA>>, <<OpInsertC>> }

----------------------------------------------------------------------------
\* Bookkeeping of runs transaction^nT undo^nU redo^nR of consecutive calls.

NoSnap == [sections |-> <<>>, history |-> <<>>, historyAt |-> 0]

NoRun == [phase |-> "X", nT |-> 0, nU |-> 0, nR |-> 0, base |-> 0,
          okT |-> TRUE, ok |-> TRUE, faithful |-> TRUE, pre |-> <<>>, final |-> NoSnap]

Snap(st) == [sections |-> st.sections, history |-> st.history, historyAt |-> st.historyAt]

RunAfterTransaction(st, st2) ==
  IF run.phase = "T"
  THEN [run EXCEPT !.nT = @ + 1, !.okT = @ /\ st2.err = "none",
                   !.ok = @ /\ st2.err = "none",
                   !.pre = Append(@, st.sections), !.final = Snap(st2)]
  ELSE [phase |-> "T", nT |-> 1, nU |-> 0, nR |-> 0, base |-> st.historyAt,
        okT |-> st2.err = "none", ok |-> st2.err = "none", faithful |-> TRUE,
        pre |-> <<st.sections>>, final |-> Snap(st2)]

RunAfterUndo(st2) ==
  IF run.phase \in {"T", "U"} /\ run.nU < run.nT
  THEN [run EXCEPT !.phase = "U", !.nU = @ + 1, !.ok = @ /\ st2.err = "none",
                   !.faithful = @ /\ st2.sections = run.pre[run.nT - run.nU]]
  ELSE NoRun

RunAfterRedo(st2) ==
  IF run.phase \in {"U", "R"} /\ run.nR < run.nU
  THEN [run EXCEPT !.phase = "R", !.nR = @ + 1, !.ok = @ /\ st2.err = "none"]
  ELSE NoRun

----------------------------------------------------------------------------
\* The state machine.

NoSection == [name |-> "", hasList |-> FALSE, components |-> <<>>]

Call(name, ops, section) == [name |-> name, ops |-> ops, section |-> section]

\* The state a call starts from.
Entry ==
  [sections |-> sections, history |-> history, historyAt |-> historyAt,
   notes |-> <<>>, log |-> <<>>, err |-> "none", execs |-> 0, miss |-> FALSE]

\* The article's fields and the observations of the call, after the call.
Exit(st2) ==
  /\ sections' = st2.sections
  /\ history' = st2.history
  /\ historyAt' = st2.historyAt
  /\ notes' = st2.notes
  /\ log' = st2.log
  /\ err' = st2.err
  /\ execs' = st2.execs
  /\ miss' = st2.miss

\* The call keeps the document within the bounds of the model.
Bounded(st2) ==
  \A i \in 1..Len(st2.sections) :
     /\ Len(st2.sections[i].components) <= MaxComponents
     /\ \A j \in 1..Len(st2.sections[i].components) :
          Len(st2.sections[i].components[j].text) <= MaxText

Outcome(st2, good) == IF st2.err = "none" THEN good ELSE "failed"

Init ==
  /\ \E params \in InitParams : sections = Construct(<<>>, params, 1)
  /\ history = <<>>
  /\ historyAt = 0
  /\ err = "none"
  /\ execs = 0
  /\ notes = <<>>
  /\ log = <<>>
  /\ miss = FALSE
  /\ lastCall = Call("new", <<>>, NoSection)
  /\ nextId = 0
  /\ applied = <<>>
  /\ discarded = {}
  /\ run = NoRun

InsertSection(section) ==
  /\ Len(sections) < MaxSections
  /\ Exit([Entry EXCEPT !.sections = insertSection(sections, section)])
  /\ lastCall' = Call("insertSection", <<>>, section)
  /\ run' = NoRun
  /\ UNCHANGED <<nextId, applied, discarded>>

Transaction(ops) ==
  /\ nextId < MaxTx
  /\ LET st2 == transaction(Entry, [id |-> nextId + 1, ops |-> ops])
         kept == Len(Truncated(Entry))
     IN /\ Bounded(st2)
        /\ Exit(st2)
        /\ applied' = Append(SubSeq(applied, 1, kept), Outcome(st2, "applied"))
        /\ discarded' = discarded \cup {history[i].id : i \in (kept + 1)..Len(history)}
        /\ run' = RunAfterTransaction(Entry, st2)
  /\ lastCall' = Call("transaction", ops, NoSection)
  /\ nextId' = nextId + 1

Redo ==
  /\ LET st2 == redo(Entry)
     IN /\ Bounded(st2)
        /\ Exit(st2)
        /\ applied' = IF st2.historyAt # historyAt /\ st2.historyAt \in 1..Len(applied)
                       THEN [applied EXCEPT ![st2.historyAt] = Outcome(st2, "applied")]
                       ELSE applied
        /\ run' = RunAfterRedo(st2)
  /\ lastCall' = Call("redo", <<>>, NoSection)
  /\ UNCHANGED <<nextId, discarded>>

Undo ==
  /\ LET st2 == undo(Entry)
     IN /\ Bounded(st2)
        /\ Exit(st2)
        /\ applied' = IF st2.historyAt # historyAt /\ historyAt \in 1..Len(applied)
                       THEN [applied EXCEPT ![historyAt] = Outcome(st2, "undone")]
                       ELSE applied
        /\ run' = RunAfterUndo(st2)
  /\ lastCall' = Call("undo", <<>>, NoSection)
  /\ UNCHANGED <<nextId, discarded>>

\* removeSection called with the k-th section of the article, or with a
\* section that is not in the article (k = 0).
RemoveSection(k) ==
  /\ Exit([Entry EXCEPT !.sections = removeSection(sections, k - 1)])
  /\ lastCall' = [name |-> "removeSection", ops |-> <<>>, section |-> NoSection,
                  index |-> k - 1]
  /\ run' = NoRun
  /\ UNCHANGED <<nextId, applied, discarded>>

Next ==
  \/ \E section \in SectionInputs : InsertSection(section)
  \/ \E ops \in TxPool : Transaction(ops)
  \/ Redo
  \/ Undo

Spec == Init /\ [][Next]_vars

\* The same calls, with the transactions whose operations name components
\* and sections that may be absent.
LookupNext ==
  \/ \E section \in SectionInputs : InsertSection(section)
  \/ \E ops \in LookupTxPool : Transaction(ops)
  \/ Redo
  \/ Undo

LookupSpec == Init /\ [][LookupNext]_vars

ReplayNext ==
  \/ \E section \in SectionInputs : InsertSection(section)
  \/ \E ops \in ReplayTxPool : Transaction(ops)
  \/ Redo
  \/ Undo

ReplaySpec == Init /\ [][ReplayNext]_vars

DispatchNext ==
  \/ \E section \in SectionInputs : InsertSection(section)
  \/ \E ops \in DispatchTxPool : Transaction(ops)
  \/ Redo
  \/ Undo

DispatchSpec == Init /\ [][DispatchNext]_vars

\* The calls of the article with removeSection among them.
SectionNext ==
  \/ \E section \in SectionInputs : InsertSection(section)
  \/ \E k \in 0..Len(sections) : RemoveSection(k)
  \/ \E ops \in SectionTxPool : Transaction(ops)
  \/ Redo
  \/ Undo

SectionSpec == Init /\ [][SectionNext]_vars

\* The calls of the article with the transactions of SkipTxPool.
SkipNext ==
  \/ \E section \in SectionInputs : InsertSection(section)
  \/ \E ops \in SkipTxPool : Transaction(ops)
  \/ Redo
  \/ Undo

SkipSpec == Init /\ [][SkipNext]_vars

TypeOK ==
  /\ historyAt \in 0..Len(history)
  /\ Len(applied) = Len(history)

----------------------------------------------------------------------------
\* Properties.

Current == [sections |-> sections, history |-> history, historyAt |-> historyAt]

LogCalls == {"transaction", "undo", "redo"}

\* C1: in every reachable state 0 <= historyAt <= history.length, the
\* transactions below historyAt are exactly the applied ones and those at or
\* above it are exactly the ones available for redo (not applied).
C1_CursorBoundary ==
  /\ historyAt \in 0..Len(history)
  /\ \A i \in 1..Len(history) :
       applied[i] = IF i <= historyAt THEN "applied" ELSE "undone"

\* C2: a transaction() called with historyAt < history.length removes every
\* transaction at an index >= historyAt before appending ops: afterwards
\* history.length is the old historyAt + 1, the last element is ops, historyAt
\* is history.length and a redo() changes nothing; a removed transaction is
\* never in history again, so no undo() or redo() can apply it.
C2_RedoTailDiscarded ==
  /\ [][(lastCall'.name = "transaction" /\ historyAt < Len(history)) =>
          /\ Len(history') = historyAt + 1
          /\ SubSeq(history', 1, historyAt) = SubSeq(history, 1, historyAt)
          /\ history'[Len(history')].ops = lastCall'.ops
          /\ historyAt' = Len(history')
          /\ redo(Entry)' = Entry'
          /\ \A i \in (historyAt + 1)..Len(history) : history[i].id \in discarded']_vars
  /\ [](\A i \in 1..Len(history) : history[i].id \notin discarded)

\* A transaction() has just removed the transaction submitted right before it.
C2_Witness ==
  /\ lastCall.name = "transaction"
  /\ nextId - 1 \in discarded
  /\ historyAt = Len(history)

\* C3: redo() at historyAt = history.length and undo() at historyAt = 0 change
\* neither historyAt, history nor the document, call exec zero times and emit
\* no selection notification.
C3_NoOpAtEnds ==
  [][((lastCall'.name = "redo" /\ historyAt = Len(history)) \/
      (lastCall'.name = "undo" /\ historyAt = 0)) =>
       /\ sections' = sections
       /\ history' = history
       /\ historyAt' = historyAt
       /\ execs' = 0
       /\ notes' = <<>>]_vars

\* A redo() was called at the head of a history whose last transaction has
\* operations, and executed none of them.
C3_Witness ==
  /\ lastCall.name = "redo"
  /\ Len(history) > 0
  /\ historyAt = Len(history)
  /\ history[Len(history)].ops # <<>>
  /\ execs = 0
  /\ err = "none"

\* C4 as stated: for every transaction T that applies successfully to D, the
\* document, history and historyAt after transaction(T); undo(); redo() equal
\* those right after transaction(T) (checked on runs in which no call throws).
C4_UndoRedoAnyT ==
  (run.phase = "R" /\ run.nU = 1 /\ run.nR = 1 /\ run.ok) => Current = run.final

\* C4 amended: for every transaction T that applies successfully to D and
\* whose undo() puts the document back in state D, the document, history and
\* historyAt after transaction(T); undo(); redo() equal those right after
\* transaction(T).
C4_UndoRedoInverseT ==
  (run.phase = "R" /\ run.nU = 1 /\ run.nR = 1 /\ run.okT /\ run.faithful)
     => Current = run.final

\* transaction(T); undo(); redo() was run with a T that changed the document
\* and an undo() that restored it.
C4_Witness ==
  /\ run.phase = "R" /\ run.nU = 1 /\ run.nR = 1 /\ run.okT /\ run.faithful
  /\ run.final.sections # run.pre[run.nT]
  /\ execs > 0

\* C5 as stated: after T1..Tn submitted in order to a document with an empty
\* history, n undo() calls followed by n redo() calls reproduce the document
\* that held right after Tn, with historyAt = history.length = n (checked on
\* runs in which no call throws).
C5_UndoAllRedoAll ==
  (run.phase = "R" /\ run.base = 0 /\ run.nU = run.nT /\ run.nR = run.nT /\ run.ok)
     => /\ Current = run.final
        /\ historyAt = run.nT
        /\ Len(history) = run.nT

\* C5 amended: the same, provided each of the n undo() calls puts the
\* document back in the state it had before the transaction it undoes.
C5_UndoAllRedoAllInverse ==
  (run.phase = "R" /\ run.base = 0 /\ run.nU = run.nT /\ run.nR = run.nT
     /\ run.faithful)
     => /\ Current = run.final
        /\ historyAt = run.nT
        /\ Len(history) = run.nT

\* Two or more transactions were submitted, all undone with every undo()
\* restoring the earlier document, and all redone.
C5_Witness ==
  /\ run.phase = "R" /\ run.base = 0 /\ run.nT >= 2
  /\ run.nU = run.nT /\ run.nR = run.nT /\ run.faithful
  /\ run.final.sections # run.pre[1]
  /\ run.pre[2] # run.pre[1]

\* C6: a transaction(), redo() or undo() in which an operation fails inside
\* exec leaves the document and historyAt as they were before the call.
C6_AllOrNothing ==
  [][(lastCall'.name \in LogCalls /\ err' # "none") =>
       (sections' = sections /\ historyAt' = historyAt)]_vars

\* C7: a call in which exec looks up a component or section name that is not
\* in the document fails with a NotFound error and mutates nothing.
C7_LookupMissIsNotFound ==
  [][(lastCall'.name \in LogCalls /\ miss') =>
       (err' = "NotFound" /\ sections' = sections)]_vars

\* C8: no two components of the document share a name and no two sections
\* share a name.
C8_UniqueNames ==
  /\ \A i, j \in 1..Len(sections) : sections[i].name = sections[j].name => i = j
  /\ \A i, j \in 1..Len(sections) :
       \A k \in 1..Len(sections[i].components), l \in 1..Len(sections[j].components) :
          sections[i].components[k].name = sections[j].components[l].name
             => (i = j /\ k = l)

\* C9: a section of the document that has at least one component still has
\* at least one after the operations executed by transaction(), undo() or redo().
C9_SectionNeverEmptied ==
  [][lastCall'.name \in LogCalls =>
       \A i \in 1..Len(sections) :
          Len(sections[i].components) > 0 => Len(sections'[i].components) > 0]_vars

\* C10: insertSection(section) appends the section as the last one; a section
\* given with zero components or no components list then holds exactly one
\* component, a default Paragraph, and a section given with components keeps
\* them unchanged; history and historyAt are unchanged.
C10_InsertSection ==
  [][lastCall'.name = "insertSection" =>
       LET given == lastCall'.section
           n == Len(sections')
       IN /\ n = Len(sections) + 1
          /\ SubSeq(sections', 1, n - 1) = sections
          /\ sections'[n].name = given.name
          /\ IF ~given.hasList \/ Len(given.components) = 0
             THEN /\ Len(sections'[n].components) = 1
                  /\ sections'[n].components[1].kind = "Paragraph"
                  /\ sections'[n].components[1].text = <<>>
             ELSE sections'[n].components = given.components
          /\ history' = history
          /\ historyAt' = historyAt]_vars

\* insertSection was called with a section without components, which now
\* holds one.
C10_Witness ==
  /\ lastCall.name = "insertSection"
  /\ Len(lastCall.section.components) = 0
  /\ Len(sections[Len(sections)].components) = 1
  /\ Len(history) > 0

\* The operations of the last transaction of the current run.
LastTx == run.final.history[Len(run.final.history)].ops

\* The document before the last transaction of the current run.
BeforeLastTx == run.pre[run.nT]

TextOf(secs, name) == ComponentAt(secs, getComponentByName(secs, name)).text

\* The last transaction inserted paragraph c at index 0 of s1 into a document
\* that had a section s1 and no component c.
InsertCCase ==
  /\ run.phase # "X"
  /\ LastTx = <<OpInsertC>>
  /\ getSectionByName(BeforeLastTx, "s1") # 0
  /\ "c" \notin ComponentNames(BeforeLastTx)

FoundCAtHead ==
  LET pos == getComponentByName(sections, "c")
  IN /\ pos = <<getSectionByName(sections, "s1"), 1>>
     /\ ComponentAt(sections, pos).kind = "Paragraph"

\* C11: in a document with section s1 and no component c, after the
\* transaction [insertComponent c (Paragraph, s1, index 0) / deleteComponent c]
\* getComponentByName(c) is a Paragraph at index 0 of s1; after a following
\* undo() it finds nothing; after a following redo() it is again a Paragraph
\* at index 0 of s1.
C11_InsertUndoRedoLookup ==
  InsertCCase =>
    /\ run.phase = "T" => FoundCAtHead
    /\ (run.phase = "U" /\ run.nU = 1) => getComponentByName(sections, "c") = <<0, 0>>
    /\ (run.phase = "R" /\ run.nU = 1 /\ run.nR = 1) => FoundCAtHead

\* The insertion of c into a section that held a component was undone and redone.
C11_Witness ==
  /\ InsertCCase
  /\ run.phase = "R" /\ run.nU = 1 /\ run.nR = 1
  /\ FoundCAtHead
  /\ Len(sections[getSectionByName(sections, "s1")].components) >= 2

\* The last transaction was [insertChars "a" at 0 of p, removeChars 1 at 0 of
\* p], each with its inverse, on a paragraph p with empty text.
InsertRemoveCase ==
  /\ run.phase # "X"
  /\ LastTx = <<OpInsertA, OpRemoveA>>
  /\ getComponentByName(BeforeLastTx, "p") # <<0, 0>>
  /\ TextOf(BeforeLastTx, "p") = <<>>

\* C12: after that transaction the text of p is empty; one undo() executes
\* the inverses of both operations, leaves the text of p empty as before the
\* transaction and decreases historyAt by exactly 1.
C12_UndoneAsAWhole ==
  InsertRemoveCase =>
    /\ run.phase = "T" => TextOf(sections, "p") = <<>>
    /\ (run.phase = "U" /\ run.nU = 1) =>
         /\ TextOf(sections, "p") = <<>>
         /\ sections = BeforeLastTx
         /\ historyAt = run.final.historyAt - 1
         /\ log = <<[operation |-> OpRemoveA, action |-> "undo"],
                    [operation |-> OpInsertA, action |-> "undo"]>>

\* The two-operation transaction on the empty p was undone by one undo().
C12_Witness ==
  /\ InsertRemoveCase
  /\ run.phase = "U" /\ run.nU = 1
  /\ lastCall.name = "undo"
  /\ execs = 2
  /\ err = "none"

\* C13: removeSection(section) with a section that is not in the article
\* fails with NotFound and leaves the sections unchanged; with a section of
\* the article it removes exactly that section.
C13_RemoveSection ==
  [][lastCall'.name = "removeSection" =>
       LET index == lastCall'.index
       IN IF index < 0
          THEN err' = "NotFound" /\ sections' = sections
          ELSE sections' = SubSeq(sections, 1, index) \o
                           SubSeq(sections, index + 2, Len(sections))]_vars

\* The action executed by a call that made exactly one exec call.
OnlyAction == log[1].operation[log[1].action]

\* C14: an insertComponent action whose componentClass is not one of
\* Paragraph, Figure, YouTubeComponent, GiphyComponent fails with an
\* UnknownVariant error and inserts nothing.
C14_UnknownVariant ==
  [][(lastCall'.name \in LogCalls /\ Len(log') = 1
        /\ OnlyAction'.op = "insertComponent"
        /\ OnlyAction'.componentClass \notin ComponentClasses) =>
       (err' = "UnknownVariant" /\ sections' = sections)]_vars

\* The exec calls that run the 'do' action of every operation of ops once, in
\* array order.
DoCalls(ops) == [i \in 1..Len(ops) |-> [operation |-> ops[i], action |-> "do"]]

\* The exec calls that run the 'undo' action of every operation of ops once,
\* in reverse array order.
UndoCalls(ops) ==
  [i \in 1..Len(ops) |-> [operation |-> ops[Len(ops) + 1 - i], action |-> "undo"]]

CursorNote(name, offset) ==
  [kind |-> "setCursor", component |-> name, from |-> offset, to |-> offset]

SelectNote(name, from, to) ==
  [kind |-> "select", component |-> name, from |-> from, to |-> to]

\* C17: an insertChars or removeChars action that carries a cursorOffset, of
\* any value including 0, makes exec call selection.setCursor with the
\* located component and that offset; without the field exec emits no
\* selection notification.
C17_CursorOffsetPresent ==
  [][(lastCall'.name \in LogCalls /\ Len(log') = 1 /\ err' = "none"
        /\ OnlyAction'.op \in {"insertChars", "removeChars"}) =>
       notes' = IF Has(OnlyAction', "cursorOffset")
                THEN <<CursorNote(OnlyAction'.component, OnlyAction'.cursorOffset)>>
                ELSE <<>>]_vars

\* C18: an updateComponent action on a located component, with cursorOffset
\* present, calls selection.select from cursorOffset to cursorOffset +
\* selectRange and not setCursor when selectRange is present (any value,
\* including 0), and setCursor and not select when selectRange is absent;
\* without cursorOffset it emits no notification.  The text is replaced only
\* when value is present and formats are applied only when formats is present.
C18_UpdateComponent ==
  [][(lastCall'.name \in LogCalls /\ Len(log') = 1 /\ err' = "none" /\ ~miss'
        /\ OnlyAction'.op = "updateComponent") =>
       LET a == OnlyAction'
           pos == getComponentByName(sections, a.component)
           before == ComponentAt(sections, pos)
           after == ComponentAt(sections', pos)
       IN /\ notes' = IF ~Has(a, "cursorOffset") THEN <<>>
                      ELSE IF Has(a, "selectRange")
                           THEN <<SelectNote(a.component, a.cursorOffset,
                                             a.cursorOffset + a.selectRange)>>
                           ELSE <<CursorNote(a.component, a.cursorOffset)>>
          /\ after.text = IF Has(a, "value") THEN a.value ELSE before.text
          /\ after.formats = IF Has(a, "formats") THEN before.formats \cup a.formats
                             ELSE before.formats]_vars

\* C19: undo() and redo() leave history as it was, same length, same
\* transactions, same operations in the same order; so does every call other
\* than transaction(), and transaction() leaves every transaction at an
\* index below the old historyAt unchanged.
C19_HistoryFrame ==
  [][/\ lastCall'.name # "transaction" => history' = history
     /\ lastCall'.name = "transaction" =>
          /\ Len(history') >= historyAt
          /\ SubSeq(history', 1, historyAt) = SubSeq(history, 1, historyAt)]_vars

\* A transaction that discarded a redo tail and kept a transaction below
\* historyAt, after at least one undo().
C19_Witness ==
  /\ lastCall.name = "transaction"
  /\ discarded # {}
  /\ Len(history) = 2
  /\ historyAt = 2

KnownOps ==
  {"insertChars", "removeChars", "updateComponent", "deleteComponent",
   "insertComponent"}

Known(operation) == operation.do.op \in KnownOps \/ operation.undo.op \in KnownOps

\* Every action of ops has an op exec does not know; true of the empty list.
Inert(ops) == \A i \in 1..Len(ops) : ~Known(ops[i])

\* ops without the operations exec does not know.
KnownOnly(ops) == SelectSeq(ops, Known)

\* The state a call starts from, had the unknown operations never been
\* submitted.
EntryKnownOnly ==
  [Entry EXCEPT !.history =
     [i \in 1..Len(history) |-> [history[i] EXCEPT !.ops = KnownOnly(@)]]]

Silent == sections' = sections /\ notes' = <<>> /\ err' = "none"

\* The call did to the document, the selection and historyAt what ref did.
SameEffect(ref) ==
  /\ sections' = ref.sections
  /\ notes' = ref.notes
  /\ err' = ref.err
  /\ historyAt' = ref.historyAt

\* C20: operations whose op is none of the five known ones are skipped by
\* exec without a document change, a selection notification or an error, and
\* the transaction holding them, like a transaction with no operations, is
\* still recorded in history and moves historyAt by one on transaction(),
\* undo() and redo().
C20_UnknownOpSkipped ==
  [][/\ (lastCall'.name = "transaction" /\ Inert(lastCall'.ops)) =>
          /\ Silent
          /\ execs' = Len(lastCall'.ops)
          /\ historyAt' = historyAt + 1
     /\ (lastCall'.name = "undo" /\ historyAt > 0 /\ Inert(history[historyAt].ops)) =>
          /\ Silent
          /\ execs' = Len(history[historyAt].ops)
          /\ historyAt' = historyAt - 1
     /\ (lastCall'.name = "redo" /\ historyAt < Len(history)
           /\ Inert(history[historyAt + 1].ops)) =>
          /\ Silent
          /\ execs' = Len(history[historyAt + 1].ops)
          /\ historyAt' = historyAt + 1
     /\ lastCall'.name = "transaction" =>
          /\ Len(history') = Len(Truncated(Entry)) + 1
          /\ history'[Len(history')].ops = lastCall'.ops
          /\ SameEffect(transaction(EntryKnownOnly,
                                    [id |-> nextId', ops |-> KnownOnly(lastCall'.ops)]))
     /\ lastCall'.name = "undo" => SameEffect(undo(EntryKnownOnly))
     /\ lastCall'.name = "redo" => SameEffect(redo(EntryKnownOnly))]_vars

\* An unknown op alone, an unknown op after a known one and an empty list,
\* all three recorded and all three undone.
C20_Witness ==
  /\ lastCall.name = "undo"
  /\ historyAt = 0
  /\ Len(history) = 3
  /\ {history[i].ops : i \in 1..3} = SkipTxPool
  /\ err = "none"

====
